---- MODULE Spec2Model ----
(***************************************************************************)
(* The engine of src/index.ts: the running flags, the trading loop          *)
(* (scan -> execute -> sleep), the statistics it updates, the opportunity   *)
(* buffer, and the start / stop / start-uhf commands.                       *)
(*                                                                           *)
(* Node runs one handler at a time: the code between two awaits is one      *)
(* atomic step.  Every action below is one such step: a command handler,    *)
(* or the continuation of a loop instance after one of its awaits (the      *)
(* provider calls of scanOpportunities, the getBalance of executeStrategy,  *)
(* the setTimeout of the loop).                                             *)
(*                                                                           *)
(* Units: amounts of ETH are integers counting 0.0005 ETH; times are        *)
(* integers counting clock ticks; the running average is an exact fraction. *)
(* Date.now() is an input: the time a trade is stamped with never goes      *)
(* back, and the latency of a call (Date.now() - startTime) is zero or a    *)
(* positive value.  Math.random() is an input too; the simulated profit     *)
(* and gas cost are only ever added to totals, no branch reads them, and    *)
(* each is drawn as one value of its range.                                 *)
(*                                                                           *)
(* POST /api/withdraw-all and GET /api/strategies share no variable with    *)
(* the loop that they write or that it writes (they read wallet, provider   *)
(* and the constant fields of the catalog), so each is a specification of   *)
(* its own: SpecWithdraw and SpecList.  The amounts of withdraw-all count   *)
(* 0.0000001 ETH, fine enough to show toFixed(6); at that grain             *)
(* parseFloat(formatEther(.)), the subtraction, toFixed(18) and parseEther  *)
(* are exact, and the rounding of doubles below it is not modelled.         *)
(***************************************************************************)
EXTENDS Integers, Sequences, FiniteSets, Bags, TLC

\* ---------------------------------------------------------------- bounds
MaxLoops == 2        \* loop instances that may be active at once
MaxTrades == 2       \* cap on stats.trades
MaxScans == 52       \* cap on the number of opportunities ever created
MaxTime == 1         \* Date.now() returns a value in 0..MaxTime
MaxBalance == 2      \* getBalance returns a value in 0..MaxBalance
NumStrategies == 2   \* size of the strategy catalog in the model
MaxDelta == 20       \* withdraw-all reads balances within MaxDelta of the reserve

\* ------------------------------------------------------ program constants
MaxOpportunities == 50     \* opportunities.length > 50 => shift()
MinGasBalance == 2         \* ethers.parseEther('0.001')
ProfitDraw == 7            \* 0.0035, a value of Math.random() * 0.005 + 0.001
GasCostDraw == 1           \* 0.0005, a value of Math.random() * 0.0005 + 0.0002
LatencyDraw == 1           \* a positive value of Date.now() - startTime
UsdPerEth == 3450          \* profit * 3450
UhfDelay == 100            \* uhfRunning ? 100 : 5000
NormalDelay == 5000
BackoffDelay == 10000      \* setTimeout(resolve, 10000) in the catch block
Reserve == 100000          \* balanceETH - 0.01, in 0.0000001 ETH
SixDecimals == 10          \* toFixed(6): 0.000001 ETH, in 0.0000001 ETH
CatalogSize == 450         \* for (let i = 0; i < 450; i++)
RiskCycle == 3             \* i % 3

StrategyIds == 1..NumStrategies
Profits == {ProfitDraw}
GasCosts == {GasCostDraw}
Latencies == {0, LatencyDraw}
Balances == 0..MaxBalance

VARIABLES
    provider,        \* TRUE iff `provider` was assigned by initBlockchain
    wallet,          \* TRUE iff `wallet` was assigned by initBlockchain
    engineRunning,
    uhfRunning,
    totalTrades,
    totalProfitUSD,
    strategies,      \* per strategy: totalTrades, totalProfitUSD
    opportunities,   \* the buffer, oldest first
    stats,
    loops,           \* the bag of active tradingLoop() instances
    oppCount,        \* history: opportunities created so far
    latencySum,      \* history: sum of the latencies folded into the average
    response,        \* the latest HTTP response of a POST command
    withdraw,        \* the POST /api/withdraw-all in progress: its await, its locals
    transfers,       \* the transactions that request had the wallet send
    withdrawResponse, \* the HTTP response of that request
    query,           \* req.query of the latest GET /api/strategies
    listing          \* the body of its response

vars == <<provider, wallet, engineRunning, uhfRunning, totalTrades,
          totalProfitUSD, strategies, opportunities, stats, loops,
          oppCount, latencySum, response, withdraw, transfers,
          withdrawResponse, query, listing>>

\* the variables of POST /api/withdraw-all
wvars == <<withdraw, transfers, withdrawResponse>>

\* the variables of GET /api/strategies
lvars == <<query, listing>>

\* ------------------------------------------------------------- fractions
RECURSIVE GCD(_, _)
GCD(a, b) == IF b = 0 THEN a ELSE GCD(b, a % b)

Frac(n, d) == LET g == GCD(n, d) IN
              IF g = 0 THEN [num |-> 0, den |-> 1]
              ELSE [num |-> n \div g, den |-> d \div g]

\* stats.avgLatencyMs = (stats.avgLatencyMs * (stats.trades - 1) + latency) / stats.trades
RunningAvg(avg, trades, latency) ==
    Frac(avg.num * (trades - 1) + latency * avg.den, avg.den * trades)

\* ------------------------------------------------------------ the buffer
\* An opportunity is represented by its creation index; its payload
\* (profit estimate, gas price, block number, timestamp) is never read by
\* the engine.
NewOpp(n) == [id |-> n]

\* a variant of Evict that drops the newest entry (pop() for shift())
EvictNewest(buf) ==
    IF Len(buf) > MaxOpportunities THEN SubSeq(buf, 1, Len(buf) - 1) ELSE buf

\* if (opportunities.length > 50) opportunities.shift();
Evict(buf) == IF Len(buf) > MaxOpportunities THEN Tail(buf) ELSE buf

\* a variant of PushOpp that adds at the front (unshift() for push())
PushFront(buf, opp) == Evict(<<opp>> \o buf)

\* opportunities.push(opp); then the eviction
PushOpp(buf, opp) == Evict(Append(buf, opp))

\* GET /api/flashloans reads the buffer: best: opportunities[0] || null.
\* Index 0 of the array is the head of the sequence.
Null == [id |-> 0]

Best(buf) == IF buf # <<>> THEN Head(buf) ELSE Null

\* ------------------------------------------------------------- the loop
\* A loop instance is the await it is suspended at (pc), with the strategy
\* it picked while it awaits getBalance, and the delay of its timer
\* while it sleeps.  stopRequested is history: a stop arrived during the
\* instance's current iteration.  An instance that returned is "idle" and is
\* not kept.  error is the error the catch block caught, while the instance
\* backs off.
IdleLoop == [pc |-> "idle", strategy |-> 0, delay |-> 0,
             stopRequested |-> FALSE, error |-> "none"]

\* throw new Error('Wallet not initialized')
NotInitialized == "Wallet not initialized"

\* throw new Error('Insufficient balance for gas')
InsufficientGas == "Insufficient balance for gas"

\* the rejection of provider.getBalance
ProviderError == "provider error"

Active(l) == l.pc # "idle"

Instances == BagToSet(loops)

\* a variant of Cadence that ignores the flag
CadenceNormal(uhf) == NormalDelay

\* const delay = uhfRunning ? 100 : 5000;
Cadence(uhf) == IF uhf THEN UhfDelay ELSE NormalDelay

\* await new Promise(resolve => setTimeout(resolve, delay));
Sleeping(l, uhf) == [pc |-> "sleep", strategy |-> 0,
                     delay |-> Cadence(uhf), stopRequested |-> l.stopRequested,
                     error |-> "none"]

\* a variant of Backoff that sleeps the normal cadence
BackoffCadence(l, error) == [pc |-> "backoff", strategy |-> 0,
                             delay |-> NormalDelay,
                             stopRequested |-> l.stopRequested, error |-> error]

\* catch (error) { ...; await new Promise(resolve => setTimeout(resolve, 10000)); }
Backoff(l, error) == [pc |-> "backoff", strategy |-> 0,
                      delay |-> BackoffDelay, stopRequested |-> l.stopRequested,
                      error |-> error]

\* a variant of LoopCondition that never ends the loop (while (true))
LoopConditionAlways(er, uhf) == TRUE

\* while (engineRunning || uhfRunning)
LoopCondition(er, uhf) == er \/ uhf

\* The loop from its while test to its first await.  Without a provider
\* scanOpportunities returns at once and the iteration goes to its sleep.
LoopTop(er, uhf) ==
    IF LoopCondition(er, uhf)
    THEN IF provider
         THEN [pc |-> "scan", strategy |-> 0, delay |-> 0,
               stopRequested |-> FALSE, error |-> "none"]
         ELSE Sleeping(IdleLoop, uhf)
    ELSE IdleLoop

\* the bag of instances after instance l moved on to position new
Moved(l, new) ==
    IF Active(new)
    THEN (loops (-) SetToBag({l})) (+) SetToBag({new})
    ELSE loops (-) SetToBag({l})

\* ------------------------------------------------------- executeStrategy
\* a variant of Ready without the test
ReadyAlways == TRUE

\* if (!wallet || !provider) throw new Error('Wallet not initialized');
Ready == wallet /\ provider

\* stats.trades++
StatsBegin(st) == [st EXCEPT !.trades = @ + 1]

\* the statements after a sufficient balance was read
StatsSuccess(st, profit, gasCost, t, latency) ==
    [st EXCEPT !.successfulTrades = @ + 1,
               !.totalProfitETH = @ + profit,
               !.totalGasCostETH = @ + gasCost,
               !.lastTradeTime = t,
               !.avgLatencyMs = RunningAvg(@, st.trades, latency)]

\* a variant of StatsFailure that does not count the failure
StatsFailureUncounted(st) == st

\* catch (error) { stats.failedTrades++; throw error; }
StatsFailure(st) == [st EXCEPT !.failedTrades = @ + 1]

\* a variant of StrategySuccess that leaves out strategy.totalTrades++
StrategySuccessProfitOnly(strat, profit) ==
    [strat EXCEPT !.totalProfitUSD = @ + profit * UsdPerEth]

\* strategy.totalTrades++; strategy.totalProfitUSD += profit * 3450;
StrategySuccess(strat, profit) ==
    [strat EXCEPT !.totalTrades = @ + 1,
                  !.totalProfitUSD = @ + profit * UsdPerEth]

\* a variant of SufficientBalance without the test
SufficientAlways(balance) == TRUE

\* if (balance < ethers.parseEther('0.001')) throw ...
SufficientBalance(balance) == ~(balance < MinGasBalance)

\* ---------------------------------------------------------------- Init
Init ==
    /\ provider \in BOOLEAN
    /\ wallet \in BOOLEAN
    /\ wallet => provider
    /\ engineRunning = FALSE
    /\ uhfRunning = FALSE
    /\ totalTrades = 0
    /\ totalProfitUSD = 0
    /\ strategies = [s \in StrategyIds |-> [totalTrades |-> 0, totalProfitUSD |-> 0]]
    /\ opportunities = <<>>
    /\ stats = [trades |-> 0, successfulTrades |-> 0, failedTrades |-> 0,
                totalProfitETH |-> 0, totalGasCostETH |-> 0,
                avgLatencyMs |-> [num |-> 0, den |-> 1], lastTradeTime |-> 0]
    /\ loops = EmptyBag
    /\ oppCount = 0
    /\ latencySum = 0
    /\ response = [cmd |-> "none", status |-> 0]
    /\ withdraw = [pc |-> "idle", read |-> FALSE, balance |-> 0, amount |-> 0]
    /\ transfers = <<>>
    /\ withdrawResponse = [status |-> 0, txHash |-> 0, amount |-> 0,
                           to |-> "none"]
    /\ query = [asked |-> FALSE, type |-> "(absent)", risk |-> "(absent)",
                active |-> "(absent)"]
    /\ listing = [total |-> 0, strategies |-> <<>>]

\* ------------------------------------------------------------- commands
Respond(cmd, status) == [cmd |-> cmd, status |-> status]

\* a variant of Launch that starts no loop (the tradingLoop() call left out)
LaunchNothing(er, uhf) == loops' = loops

\* tradingLoop(): a new instance runs up to its first await
Launch(er, uhf) ==
    /\ BagCardinality(loops) < MaxLoops
    /\ loops' = loops (+) SetToBag({LoopTop(er, uhf)})

\* a variant of StartRejected that tests the other flag
StartRejectedOnUhf(er, uhf) == uhf

\* if (engineRunning) return res.status(400)
StartRejected(er, uhf) == er

\* if (uhfRunning) return res.status(400)
StartUhfRejected(er, uhf) == uhf

\* POST /api/start
Start ==
    /\ IF StartRejected(engineRunning, uhfRunning)
       THEN /\ response' = Respond("start", 400)
            /\ UNCHANGED <<engineRunning, loops>>
       ELSE /\ engineRunning' = TRUE
            /\ Launch(TRUE, uhfRunning)
            /\ response' = Respond("start", 200)
    /\ UNCHANGED <<provider, wallet, uhfRunning, totalTrades, totalProfitUSD,
                   strategies, opportunities, stats, oppCount, latencySum>>
    /\ UNCHANGED <<wvars, lvars>>

\* every instance of the bag B with stopRequested set
StopSeen(B) ==
    LET Mark(l) == [l EXCEPT !.stopRequested = TRUE]
        Unmarked(m) == [m EXCEPT !.stopRequested = FALSE]
        Count(m) == (IF m \in BagToSet(B) THEN B[m] ELSE 0)
                    + (IF Unmarked(m) \in BagToSet(B) THEN B[Unmarked(m)] ELSE 0)
    IN [m \in {Mark(l) : l \in BagToSet(B)} |-> Count(m)]

\* a variant of StopFlags that clears engineRunning only
StopFlagsKeepUhf(er, uhf) == [engineRunning |-> FALSE, uhfRunning |-> uhf]

\* engineRunning = false; uhfRunning = false;
StopFlags(er, uhf) == [engineRunning |-> FALSE, uhfRunning |-> FALSE]

\* POST /api/stop.  stopRequested notes, for each instance active now, that
\* a stop arrived during its current iteration.
Stop ==
    /\ engineRunning' = StopFlags(engineRunning, uhfRunning).engineRunning
    /\ uhfRunning' = StopFlags(engineRunning, uhfRunning).uhfRunning
    /\ loops' = StopSeen(loops)
    /\ response' = Respond("stop", 200)
    /\ UNCHANGED <<provider, wallet, totalTrades, totalProfitUSD, strategies,
                   opportunities, stats, oppCount, latencySum>>
    /\ UNCHANGED <<wvars, lvars>>

\* a variant of UhfFlags that sets uhfRunning only
UhfFlagsOnlyUhf(er, uhf) == [engineRunning |-> er, uhfRunning |-> TRUE]

\* uhfRunning = true; engineRunning = true;
UhfFlags(er, uhf) == [engineRunning |-> TRUE, uhfRunning |-> TRUE]

\* POST /api/start-uhf
StartUhf ==
    /\ IF StartUhfRejected(engineRunning, uhfRunning)
       THEN /\ response' = Respond("startUhf", 400)
            /\ UNCHANGED <<engineRunning, uhfRunning, loops>>
       ELSE /\ engineRunning' = UhfFlags(engineRunning, uhfRunning).engineRunning
            /\ uhfRunning' = UhfFlags(engineRunning, uhfRunning).uhfRunning
            /\ Launch(engineRunning', uhfRunning')
            /\ response' = Respond("startUhf", 200)
    /\ UNCHANGED <<provider, wallet, totalTrades, totalProfitUSD, strategies,
                   opportunities, stats, oppCount, latencySum>>
    /\ UNCHANGED <<wvars, lvars>>

\* ------------------------------------------------------ loop continuations
\* The provider calls of scanOpportunities returned (ok) or threw (~ok); the
\* loop runs on to its next await.
\*   ~ok: scanOpportunities returns null, the iteration sleeps its cadence.
\*   ok:  the opportunity is created and buffered, a strategy is picked and
\*        executeStrategy is entered: not ready, it throws and the loop backs
\*        off; ready, it counts the trade and awaits getBalance.
ScanReturned(l, ok) ==
    /\ l.pc = "scan"
    /\  IF ~ok
        THEN /\ loops' = Moved(l, Sleeping(l, uhfRunning))
             /\ UNCHANGED <<opportunities, oppCount, stats>>
        ELSE /\ oppCount < MaxScans
             /\ oppCount' = oppCount + 1
             /\ opportunities' = PushOpp(opportunities, NewOpp(oppCount + 1))
             /\ IF ~Ready
                THEN /\ loops' = Moved(l, Backoff(l, NotInitialized))
                     /\ UNCHANGED stats
                ELSE /\ stats.trades < MaxTrades
                     /\ \E s \in StrategyIds :
                          loops' = Moved(l,
                                [pc |-> "exec", strategy |-> s, delay |-> 0,
                                 stopRequested |-> l.stopRequested,
                                 error |-> "none"])
                     /\ stats' = StatsBegin(stats)
    /\ UNCHANGED <<provider, wallet, engineRunning, uhfRunning, totalTrades,
                   totalProfitUSD, strategies, latencySum, response>>
    /\ UNCHANGED <<wvars, lvars>>

ScanDone(l) == \E ok \in BOOLEAN : ScanReturned(l, ok)

\* getBalance returned a balance or threw (~ok); executeStrategy finishes and
\* the loop runs on to its sleep (cadence after a trade, backoff after an error).
BalanceReturned(l, ok, balance) ==
    /\ l.pc = "exec"
    /\  IF ok /\ SufficientBalance(balance)
        THEN \E profit \in Profits, gasCost \in GasCosts,
                t \in stats.lastTradeTime..MaxTime, latency \in Latencies :
              LET s == l.strategy IN
                /\ stats' = StatsSuccess(stats, profit, gasCost, t, latency)
                /\ strategies' = [strategies EXCEPT ![s] = StrategySuccess(@, profit)]
                /\ totalTrades' = totalTrades + 1
                /\ totalProfitUSD' = totalProfitUSD + profit * UsdPerEth
                /\ latencySum' = latencySum + latency
                /\ loops' = Moved(l, Sleeping(l, uhfRunning))
        ELSE /\ stats' = StatsFailure(stats)
             /\ loops' = Moved(l, Backoff(l, IF ok THEN InsufficientGas
                                                ELSE ProviderError))
             /\ UNCHANGED <<strategies, totalTrades, totalProfitUSD, latencySum>>
    /\ UNCHANGED <<provider, wallet, engineRunning, uhfRunning, opportunities,
                   oppCount, response>>
    /\ UNCHANGED <<wvars, lvars>>

ExecDone(l) ==
    \E ok \in BOOLEAN, balance \in Balances : BalanceReturned(l, ok, balance)

\* The setTimeout of the sleep or of the backoff fired: the while test is
\* evaluated and the instance either starts its next iteration or returns.
TimerFired(l) ==
    /\ l.pc \in {"sleep", "backoff"}
    /\ loops' = Moved(l, LoopTop(engineRunning, uhfRunning))
    /\ UNCHANGED <<provider, wallet, engineRunning, uhfRunning, totalTrades,
                   totalProfitUSD, strategies, opportunities, stats,
                   oppCount, latencySum, response>>
    /\ UNCHANGED <<wvars, lvars>>

Next ==
    \/ Start
    \/ Stop
    \/ StartUhf
    \/ \E l \in Instances : ScanDone(l)
    \/ \E l \in Instances : ExecDone(l)
    \/ \E l \in Instances : TimerFired(l)

Spec == Init /\ [][Next]_vars

\* ------------------------------------------------- POST /api/withdraw-all
\* const PROFIT_WALLET = process.env.PROFIT_WALLET_ADDRESS || BACKEND_WALLET
ProfitWallet == "PROFIT_WALLET"

\* the balances provider.getBalance may return: none, 0.005 ETH, 1.0 ETH and
\* the values around the reserve
WithdrawBalances ==
    {0, Reserve \div 2, Reserve * 100}
        \cup ((Reserve - MaxDelta)..(Reserve + MaxDelta))

\* read: getBalance has returned, balance and amount are the handler's locals
NoWithdraw == [pc |-> "idle", read |-> FALSE, balance |-> 0, amount |-> 0]

NoWithdrawResponse == [status |-> 0, txHash |-> 0, amount |-> 0, to |-> "none"]

\* res.status(status).json({ error })
WithdrawError(status) == [status |-> status, txHash |-> 0, amount |-> 0, to |-> "none"]

\* const withdrawAmount = parseFloat(ethers.formatEther(balance)) - 0.01
WithdrawAmount(balance) == balance - Reserve

\* a variant of Insufficient that lets a balance equal to the reserve through
InsufficientStrict(amount) == amount < 0

\* if (withdrawAmount <= 0) return res.status(400)
Insufficient(amount) == amount <= 0

\* withdrawAmount.toFixed(6): the multiples of 0.000001 nearest to the amount.
\* Half way between two of them the double nearest to the amount decides,
\* and either may be printed.
ToFixed6(amount) ==
    LET down == (amount \div SixDecimals) * SixDecimals
        rest == amount % SixDecimals
    IN IF 2 * rest < SixDecimals THEN {down}
       ELSE IF 2 * rest > SixDecimals THEN {down + SixDecimals}
       ELSE {down, down + SixDecimals}

\* { to: PROFIT_WALLET, value: ethers.parseEther(withdrawAmount.toFixed(18)),
\*   gasLimit: 21000 }, with the hash the provider gave it
Transfer(amount, hash) == [to |-> ProfitWallet, value |-> amount, hash |-> hash]

\* The handler up to its first await: 503 when the wallet is not ready,
\* otherwise provider.getBalance is awaited.
WithdrawCall ==
    /\ withdraw.pc = "idle"
    /\ transfers' = <<>>
    /\ IF ~Ready
       THEN /\ withdraw' = NoWithdraw
            /\ withdrawResponse' = WithdrawError(503)
       ELSE /\ withdraw' = [NoWithdraw EXCEPT !.pc = "balance"]
            /\ withdrawResponse' = NoWithdrawResponse
    /\ UNCHANGED <<provider, wallet, engineRunning, uhfRunning, totalTrades,
                   totalProfitUSD, strategies, opportunities, stats, loops,
                   oppCount, latencySum, response, lvars>>

\* getBalance returned a balance or threw (~ok): 500, 400, or the
\* transaction is handed to wallet.sendTransaction, which is awaited.
WithdrawBalanceRead ==
    /\ withdraw.pc = "balance"
    /\ \E ok \in BOOLEAN, balance \in WithdrawBalances :
        IF ~ok
        THEN /\ withdraw' = NoWithdraw
             /\ withdrawResponse' = WithdrawError(500)
        ELSE IF Insufficient(WithdrawAmount(balance))
        THEN /\ withdraw' = [pc |-> "idle", read |-> TRUE, balance |-> balance,
                             amount |-> WithdrawAmount(balance)]
             /\ withdrawResponse' = WithdrawError(400)
        ELSE /\ withdraw' = [pc |-> "send", read |-> TRUE, balance |-> balance,
                             amount |-> WithdrawAmount(balance)]
             /\ UNCHANGED withdrawResponse
    /\ UNCHANGED <<provider, wallet, engineRunning, uhfRunning, totalTrades,
                   totalProfitUSD, strategies, opportunities, stats, loops,
                   oppCount, latencySum, response, transfers, lvars>>

\* sendTransaction resolved with the transaction it broadcast, or threw
\* (~ok): nothing was sent and the handler answers 500.
WithdrawSent ==
    /\ withdraw.pc = "send"
    /\ \E ok \in BOOLEAN :
        IF ok
        THEN /\ transfers' = Append(transfers,
                                    Transfer(withdraw.amount, Len(transfers) + 1))
             /\ withdraw' = [withdraw EXCEPT !.pc = "wait"]
             /\ UNCHANGED withdrawResponse
        ELSE /\ withdraw' = [withdraw EXCEPT !.pc = "idle"]
             /\ withdrawResponse' = WithdrawError(500)
             /\ UNCHANGED transfers
    /\ UNCHANGED <<provider, wallet, engineRunning, uhfRunning, totalTrades,
                   totalProfitUSD, strategies, opportunities, stats, loops,
                   oppCount, latencySum, response, lvars>>

\* tx.wait() resolved with the receipt, or threw (~ok): the handler answers
\* with the receipt's hash and the amount printed with 6 decimals, or 500.
WithdrawConfirmed ==
    /\ withdraw.pc = "wait"
    /\ \E ok \in BOOLEAN :
        IF ok
        THEN \E printed \in ToFixed6(withdraw.amount) :
               withdrawResponse' =
                   [status |-> 200, txHash |-> transfers[Len(transfers)].hash,
                    amount |-> printed, to |-> ProfitWallet]
        ELSE withdrawResponse' = WithdrawError(500)
    /\ withdraw' = [withdraw EXCEPT !.pc = "idle"]
    /\ UNCHANGED <<provider, wallet, engineRunning, uhfRunning, totalTrades,
                   totalProfitUSD, strategies, opportunities, stats, loops,
                   oppCount, latencySum, response, transfers, lvars>>

NextWithdraw ==
    \/ WithdrawCall
    \/ WithdrawBalanceRead
    \/ WithdrawSent
    \/ WithdrawConfirmed

SpecWithdraw == Init /\ [][NextWithdraw]_vars

\* ---------------------------------------------------- GET /api/strategies
\* The catalog generateStrategies() builds before the server listens: the
\* strategy at index k of the model is the one built with i = k - 1.  Its
\* type, riskLevel and enabled fields are never assigned again.
StrategyTypes ==
    <<"sandwich", "frontrun", "backrun", "arbitrage", "liquidation",
      "jit_liquidity", "flash_swap", "triangular", "cross_dex">>

\* strategyTypes[i % strategyTypes.length]
StrategyType(k) == StrategyTypes[((k - 1) % Len(StrategyTypes)) + 1]

\* i % 3 === 0 ? 'high' : i % 3 === 1 ? 'medium' : 'low'
RiskLevel(k) ==
    IF (k - 1) % RiskCycle = 0 THEN "high"
    ELSE IF (k - 1) % RiskCycle = 1 THEN "medium" ELSE "low"

\* enabled: true
Enabled(k) == TRUE

\* let filtered = strategies
Catalog == [k \in 1..CatalogSize |-> k]

\* a parameter the request does not carry
Absent == "(absent)"

\* the values a parameter of the query string may have
TypeParams ==
    {StrategyTypes[n] : n \in 1..Len(StrategyTypes)} \cup {Absent, "", "other"}

RiskParams == {"high", "medium", "low", "", Absent}

ActiveParams == {"true", "false", Absent}

\* if (type), if (risk): undefined and the empty string are falsy
Truthy(param) == param \notin {Absent, ""}

\* the three filter statements and the response body
ListStrategies(q) ==
    LET OfType(k) == StrategyType(k) = q.type
        OfRisk(k) == RiskLevel(k) = q.risk
        byType == IF Truthy(q.type) THEN SelectSeq(Catalog, OfType) ELSE Catalog
        byRisk == IF Truthy(q.risk) THEN SelectSeq(byType, OfRisk) ELSE byType
        byActive == IF q.active = "true" THEN SelectSeq(byRisk, Enabled)
                    ELSE byRisk
    IN [total |-> Len(byActive), strategies |-> byActive]

\* GET /api/strategies
GetStrategies ==
    /\ \E type \in TypeParams, risk \in RiskParams, active \in ActiveParams :
         /\ query' = [asked |-> TRUE, type |-> type, risk |-> risk,
                      active |-> active]
         /\ listing' = ListStrategies(query')
    /\ UNCHANGED <<provider, wallet, engineRunning, uhfRunning, totalTrades,
                   totalProfitUSD, strategies, opportunities, stats, loops,
                   oppCount, latencySum, response, wvars>>

NextList == GetStrategies

SpecList == Init /\ [][NextList]_vars

\* ================================================================ claims
ActiveCount == BagCardinality(loops)

Stopped == ~engineRunning /\ ~uhfRunning

\* the number of instances of the bag B inside executeStrategy (awaiting getBalance)
InFlight(B) ==
    BagCardinality([l \in {x \in BagToSet(B) : x.pc = "exec"} |-> B[l]])

\* instance l took a step: one copy of it left its position
Stepped(l) == CopiesIn(l, loops') < CopiesIn(l, loops)

\* The steps of instance l, by the outcome of the call it awaited.  Each
\* takes a copy of l out of the bag, which is tested first.
ScanFailed(l) == l.pc = "scan" /\ Stepped(l) /\ ScanReturned(l, FALSE)

ScanSucceeded(l) == l.pc = "scan" /\ Stepped(l) /\ ScanReturned(l, TRUE)

BalanceFailed(l) ==
    /\ l.pc = "exec" /\ Stepped(l)
    /\ \E balance \in Balances : BalanceReturned(l, FALSE, balance)

BalanceRead(l, balance) ==
    l.pc = "exec" /\ Stepped(l) /\ BalanceReturned(l, TRUE, balance)

TimerStep(l) == l.pc \in {"sleep", "backoff"} /\ Stepped(l) /\ TimerFired(l)

Min(a, b) == IF a < b THEN a ELSE b

\* ---- C1: at most one instance of the scan-execute loop is active in every
\* reachable state.
C1_AtMostOneLoop == ActiveCount <= 1

\* ---- C2: start is rejected (400) whenever either running flag is set,
\* startHighFrequency whenever the high-frequency flag is set, and a rejected
\* command changes neither flag and launches no loop instance.
C2_RejectedStartHasNoEffect ==
    [][/\ (Start /\ (engineRunning \/ uhfRunning))
              => response' = [cmd |-> "start", status |-> 400]
       /\ (StartUhf /\ uhfRunning)
              => response' = [cmd |-> "startUhf", status |-> 400]
       /\ ((Start \/ StartUhf) /\ response'.status = 400)
              => UNCHANGED <<engineRunning, uhfRunning, loops>>]_vars

\* a start was rejected while the high-frequency loop runs
C2_Witness ==
    /\ response = [cmd |-> "start", status |-> 400]
    /\ uhfRunning
    /\ ActiveCount >= 1

\* ---- C3: a loop instance that was active when stop() ran exits at its next
\* loop-top check, once its current iteration and sleep are over.
C3_StoppedLoopExits ==
    [][\A l \in Instances :
          (l.stopRequested /\ l.pc \in {"sleep", "backoff"} /\ Stepped(l))
             => BagCardinality(loops') < ActiveCount]_vars

\* ---- C4 (as stated): while both flags are false (between a stop() and the
\* next accepted start) no Statistics field and no per-strategy cumulative
\* field changes.
C4_NoMutationWhileStopped ==
    [][Stopped => UNCHANGED <<stats, strategies, totalTrades, totalProfitUSD>>]_vars

\* ---- C4 (amended): while both flags are false the Statistics and the
\* per-strategy fields change only in a step of an instance whose iteration
\* was awaiting its scan or its balance fetch when stop() arrived.
C4_OnlyInFlightIterationMutates ==
    [][(Stopped /\ <<stats, strategies, totalTrades, totalProfitUSD>>'
                     # <<stats, strategies, totalTrades, totalProfitUSD>>)
          => \E l \in Instances :
                l.stopRequested /\ l.pc \in {"scan", "exec"} /\ Stepped(l)]_vars

\* stop() arrived while an instance awaits its balance fetch
C4_Witness ==
    /\ Stopped
    /\ \E l \in Instances : l.stopRequested /\ l.pc = "exec"

\* the counters of stats after a step, relative to before it
TradesUp == stats'.trades = stats.trades + 1
TradesSame == stats'.trades = stats.trades
OutcomeSame ==
    /\ stats'.successfulTrades = stats.successfulTrades
    /\ stats'.failedTrades = stats.failedTrades
OneOutcomeUp ==
    \/ /\ stats'.successfulTrades = stats.successfulTrades + 1
       /\ stats'.failedTrades = stats.failedTrades
    \/ /\ stats'.successfulTrades = stats.successfulTrades
       /\ stats'.failedTrades = stats.failedTrades + 1

\* a call of executeStrategy that passed the readiness test: entering it
\* counts the trade, leaving it counts exactly one outcome
ReadyCallCounts ==
    /\ InFlight(loops') = InFlight(loops) + 1 => (TradesUp /\ OutcomeSame)
    /\ InFlight(loops') = InFlight(loops) - 1 => (TradesSame /\ OneOutcomeUp)
    /\ stats'.failedTrades >= stats.failedTrades

\* a call of executeStrategy that threw 'Wallet not initialized': the only
\* step that takes an instance from its scan to the backoff
NotReadyCall ==
    \E l \in Instances :
        /\ l.pc = "scan" /\ Stepped(l)
        /\ CopiesIn(Backoff(l, NotInitialized), loops')
              > CopiesIn(Backoff(l, NotInitialized), loops)

\* ---- C5 (as stated): every call of execute, the not-ready one included,
\* increments trades by 1 and exactly one of successfulTrades, failedTrades.
C5_EveryCallCounts ==
    [][ReadyCallCounts /\ (NotReadyCall => (TradesUp /\ OneOutcomeUp))]_vars

\* ---- C5 (amended): every call of execute that passes the readiness test
\* increments trades by 1 and exactly one of successfulTrades, failedTrades
\* by 1; a call that fails the readiness test changes no counter; no step
\* changes a counter otherwise, and failedTrades never decreases.
C5_ReadyCallCountsOnce ==
    [][/\ ReadyCallCounts
       /\ NotReadyCall => (TradesSame /\ OutcomeSame)
       /\ InFlight(loops') = InFlight(loops) => (TradesSame /\ OutcomeSame)]_vars

\* calls of both outcomes have completed
C5_Witness == stats.successfulTrades >= 1 /\ stats.failedTrades >= 1

\* ---- C6: the buffer holds at most 50 entries, and they are the most
\* recently created ones in creation order (eviction removes the oldest).
C6_BufferKeepsNewest ==
    /\ Len(opportunities) <= MaxOpportunities
    /\ Len(opportunities) = Min(oppCount, MaxOpportunities)
    /\ \A k \in 1..Len(opportunities) :
          opportunities[k] = NewOpp(oppCount - Len(opportunities) + k)

\* a scan appended to a full buffer
C6_Witness == oppCount > MaxOpportunities /\ Len(opportunities) = MaxOpportunities

\* ---- C7: stop() always succeeds and leaves both flags false, touching
\* nothing but the flags; a stop() that follows a stop() with no start in
\* between changes nothing at all.
C7_StopIdempotent ==
    [][/\ Stop
            => /\ response' = [cmd |-> "stop", status |-> 200]
               /\ ~engineRunning' /\ ~uhfRunning'
               /\ BagCardinality(loops') = ActiveCount
               /\ UNCHANGED <<provider, wallet, totalTrades, totalProfitUSD,
                              strategies, opportunities, stats>>
       /\ (Stop /\ response.cmd = "stop") => UNCHANGED vars]_vars

\* stop() answered while a loop instance was active
C7_Witness == response = [cmd |-> "stop", status |-> 200] /\ ActiveCount >= 1

\* ---- C8: the high-frequency flag set implies the normal flag set.
C8_UhfImpliesEngine == uhfRunning => engineRunning

\* the high-frequency mode is on
C8_Witness == uhfRunning /\ engineRunning /\ response.cmd = "startUhf"

\* ---- C9 (as stated): a loop instance is active iff a running flag is set.
C9_ActiveIffRunning == (ActiveCount >= 1) <=> (engineRunning \/ uhfRunning)

\* ---- C9 (amended): a running flag set implies a loop instance is active;
\* with both flags false an instance is active only while it finishes the
\* iteration during which stop() arrived.
C9_RunningImpliesActive ==
    /\ (engineRunning \/ uhfRunning) => ActiveCount >= 1
    /\ Stopped => \A l \in Instances : l.stopRequested

\* both flags are false and an instance is still finishing its iteration
C9_Witness == Stopped /\ ActiveCount >= 1

\* ---- C10: the running-average latency equals the arithmetic mean of the
\* latencies recorded (one per successful call).
C10_AverageIsMean ==
    IF stats.successfulTrades = 0
    THEN stats.avgLatencyMs.num = 0
    ELSE stats.avgLatencyMs.num * stats.successfulTrades
            = latencySum * stats.avgLatencyMs.den

\* ---- C11 (as stated): a withdraw-all that read a balance at or below
\* the reserve fails with 400 and sends nothing; one that read a balance
\* above it sends exactly one transfer of balance - reserve to the profit
\* wallet and answers 200 with the transaction's hash and that amount.
WithdrawAnswered == withdraw.pc = "idle" /\ withdraw.read

C11_TransfersAboveReserve ==
    /\ ~withdraw.read => transfers = <<>>
    /\ WithdrawAnswered =>
         IF withdraw.balance - Reserve <= 0
         THEN withdrawResponse.status = 400 /\ transfers = <<>>
         ELSE /\ transfers = <<Transfer(withdraw.balance - Reserve, 1)>>
              /\ withdrawResponse =
                   [status |-> 200, txHash |-> transfers[1].hash,
                    amount |-> withdraw.balance - Reserve, to |-> ProfitWallet]

\* ---- C11 (amended): a transfer is sent only after a balance above the
\* reserve was read, there is at most one per request, and it carries
\* balance - reserve to the profit wallet; a balance at or below the reserve
\* is answered 400 and only such a balance is; a balance above the reserve is
\* answered 200 or, when the provider fails in the send or the wait, 500; a
\* 200 carries the hash of the one transfer sent and the amount rounded to a
\* multiple of 0.000001 ETH, at most half of that away from the transfer.
C11_TransfersAboveReserveOrFails ==
    /\ Len(transfers) <= 1
    /\ transfers # <<>> =>
         /\ withdraw.read /\ withdraw.balance > Reserve
         /\ transfers[1].to = ProfitWallet
         /\ transfers[1].value = withdraw.balance - Reserve
    /\ (withdraw.read /\ withdraw.balance <= Reserve) =>
         withdrawResponse.status = 400 /\ transfers = <<>>
    /\ withdrawResponse.status = 400 =>
         withdraw.read /\ withdraw.balance <= Reserve
    /\ (WithdrawAnswered /\ withdraw.balance > Reserve) =>
         withdrawResponse.status \in {200, 500}
    /\ withdrawResponse.status = 200 =>
         /\ Len(transfers) = 1
         /\ withdrawResponse.txHash = transfers[1].hash
         /\ withdrawResponse.to = ProfitWallet
         /\ withdrawResponse.amount % SixDecimals = 0
         /\ 2 * (withdrawResponse.amount - transfers[1].value)
               \in (0 - SixDecimals)..SixDecimals

\* a withdrawal was confirmed whose answer names another amount than the
\* transfer carried
C11_Witness ==
    /\ withdrawResponse.status = 200
    /\ Len(transfers) = 1
    /\ withdrawResponse.amount # transfers[1].value

\* the bag of instances gained a copy of position b in this step
Grew(b) == CopiesIn(b, loops') > CopiesIn(b, loops)

\* an instance went to sleep for the 10000 ms of the catch block
BackedOff ==
    \E b \in BagToSet(loops') :
        b.pc = "backoff" /\ b.delay = BackoffDelay /\ Grew(b)

\* an instance went to sleep for the cadence of the flags as they are
SleptCadence ==
    \E b \in BagToSet(loops') :
        /\ b.pc = "sleep" /\ Grew(b)
        /\ b.delay = (IF uhfRunning THEN UhfDelay ELSE NormalDelay)

SameInstances == BagCardinality(loops') = BagCardinality(loops)

\* ---- C12 (as stated): a provider failure in the scan or in the balance
\* check of execute is followed by the 10000 ms backoff, and the instance
\* stays in the loop.
C12_ProviderFailureBacksOff ==
    [][\A l \in Instances :
        (ScanFailed(l) \/ BalanceFailed(l))
        => (BackedOff /\ SameInstances)]_vars

\* ---- C12 (amended): a provider failure in the scan is caught inside the
\* scan: the iteration calls no execute, changes no statistics and sleeps
\* the cadence; a provider failure in the balance check of execute is
\* caught by the loop, which sleeps the 10000 ms backoff; in both cases the
\* instance stays in the loop, and when its timer fires while a flag is set
\* it begins another iteration.
C12_OnlyExecuteFailureBacksOff ==
    [][\A l \in Instances :
        /\ ScanFailed(l)
             => (SleptCadence /\ ~BackedOff /\ SameInstances
                 /\ UNCHANGED <<stats, opportunities>>)
        /\ BalanceFailed(l)
             => (BackedOff /\ ~SleptCadence /\ SameInstances)
        /\ (TimerStep(l) /\ (engineRunning \/ uhfRunning))
             => (SameInstances /\ Grew(LoopTop(engineRunning, uhfRunning)))]_vars

\* an instance backs off after getBalance failed, while another sleeps its
\* cadence after a scan that failed or an execute that succeeded
C12_Witness ==
    /\ \E l \in Instances : l.pc = "backoff" /\ l.error = ProviderError
    /\ \E l \in Instances : l.pc = "sleep"

\* the balances that pass the gas test of executeStrategy
GasBalances == {balance \in Balances : ~(balance < MinGasBalance)}

\* ---- C13: an iteration that raised no error (a scan that found nothing,
\* an execute that succeeded, a scan skipped for want of a provider) ends in
\* a sleep, and every sleep an instance enters lasts 100 ms if uhfRunning is
\* set at that moment, whatever engineRunning is, and 5000 ms otherwise.
C13_CadenceFromCurrentFlags ==
    [][/\ ~Stop =>
            \A b \in BagToSet(loops') :
                (b.pc = "sleep" /\ Grew(b))
                    => b.delay = (IF uhfRunning' THEN UhfDelay ELSE NormalDelay)
       /\ \A l \in Instances :
            (ScanFailed(l) \/ \E balance \in GasBalances : BalanceRead(l, balance))
            => SleptCadence]_vars

\* after a start and a start-uhf, one instance still sleeps the 5000 ms it
\* chose before the start-uhf and another sleeps the 100 ms chosen after it
C13_Witness ==
    /\ engineRunning /\ uhfRunning
    /\ \E l \in Instances : l.pc = "sleep" /\ l.delay = NormalDelay
    /\ \E l \in Instances : l.pc = "sleep" /\ l.delay = UhfDelay

\* the entries of the buffer before the step are, after it, what they were:
\* the buffer after the step, less its last entry, is the buffer before it
\* or its tail
OldEntriesKept ==
    LET kept == SubSeq(opportunities', 1, Len(opportunities') - 1)
    IN kept = opportunities \/ kept = Tail(opportunities)

\* ---- C14: a scan whose provider call fails raises no error (the loop goes
\* to its cadence sleep, not to the catch block) and leaves the buffer as it
\* was, and without a provider the buffer never changes; a scan whose
\* provider calls succeed appends exactly one opportunity, a new one, and
\* returns it (the loop goes on to execute), every older entry is kept as it
\* was or evicted; and nothing but a successful scan changes the buffer.
C14_ScanFailsSoftly ==
    [][/\ \A l \in Instances :
            /\ ScanFailed(l)
                 => (UNCHANGED <<opportunities, oppCount>>
                     /\ ~BackedOff /\ SleptCadence)
            /\ ScanSucceeded(l)
                 => /\ opportunities' # <<>>
                    /\ opportunities'[Len(opportunities')] = NewOpp(oppCount + 1)
                    /\ \A k \in 1..Len(opportunities) :
                          opportunities[k] # NewOpp(oppCount + 1)
                    /\ OldEntriesKept
                    /\ ~SleptCadence
       /\ ~provider => UNCHANGED opportunities
       /\ opportunities' # opportunities
            => \E l \in Instances : ScanSucceeded(l)]_vars

\* two scans have succeeded
C14_Witness == provider /\ Len(opportunities) >= 2 /\ oppCount = Len(opportunities)

\* the balances below ethers.parseEther('0.001')
LowBalances == {balance \in Balances : balance < MinGasBalance}

\* ---- C15: when getBalance returns a balance below the 0.001 threshold,
\* failedTrades goes up by 1 and no other field of the statistics changes,
\* the global totals and every strategy's totals stay as they were, and the
\* error reaches the loop's catch block at once: the call is over (no second
\* balance read) and the instance backs off with that error.
C15_LowBalanceCountsFailureOnly ==
    [][\A l \in Instances : \A balance \in LowBalances :
        BalanceRead(l, balance)
        => /\ stats' = [stats EXCEPT !.failedTrades = @ + 1]
           /\ UNCHANGED <<totalTrades, totalProfitUSD, strategies>>
           /\ InFlight(loops') = InFlight(loops) - 1
           /\ Grew(Backoff(l, InsufficientGas))
           /\ SameInstances]_vars

\* an execute was aborted for want of gas and its instance backs off
C15_Witness ==
    /\ stats.failedTrades >= 1
    /\ \E l \in Instances : l.pc = "backoff" /\ l.error = InsufficientGas

\* ---- C16: the 'best' of GET /api/flashloans is the opportunity appended
\* last when the buffer is not empty, and null when it is empty.
C16_BestIsMostRecent ==
    Best(opportunities) = IF opportunities = <<>> THEN Null
                          ELSE opportunities[Len(opportunities)]

\* the strategies of the catalog that satisfy every predicate the query
\* supplies: type equal, riskLevel equal, enabled equal to the flag asked for
Matching(q) ==
    LET Satisfies(k) ==
            /\ Truthy(q.type) => StrategyType(k) = q.type
            /\ Truthy(q.risk) => RiskLevel(k) = q.risk
            /\ Truthy(q.active) => (Enabled(k) <=> (q.active = "true"))
    IN SelectSeq(Catalog, Satisfies)

\* ---- C17: the listing is exactly the strategies that satisfy every
\* predicate supplied (type, risk, enabled flag), an omitted predicate
\* passing all; a filter on the enabled flag selects by the flag's value.
C17_ListingMatchesEveryPredicate ==
    query.asked =>
        /\ listing.strategies = Matching(query)
        /\ listing.total = Len(listing.strategies)

\* ---- C18: at most one call of execute is in flight (its trade counted,
\* its outcome not yet), so trades - (successfulTrades + failedTrades) is 0
\* or 1, and no scan is pending while a call is in flight.
C18_OneExecuteInFlight ==
    /\ InFlight(loops) <= 1
    /\ stats.trades - (stats.successfulTrades + stats.failedTrades) \in {0, 1}
    /\ InFlight(loops) = 1 => \A l \in Instances : l.pc # "scan"

\* ---- C19: when the wallet or the provider is missing, the call of
\* execute that follows a successful scan changes no statistics, no global
\* total and no strategy field; its error sends the instance to the 10000 ms
\* backoff without ending it, and when that timer fires while a flag is set
\* the instance begins another iteration.
C19_NotReadyTouchesNothing ==
    [][\A l \in Instances :
        /\ (~(wallet /\ provider) /\ ScanSucceeded(l))
             => /\ UNCHANGED <<stats, totalTrades, totalProfitUSD, strategies>>
                /\ \E b \in BagToSet(loops') :
                      /\ b.pc = "backoff" /\ b.delay = BackoffDelay
                      /\ b.error = NotInitialized /\ Grew(b)
                /\ SameInstances
        /\ (l.pc = "backoff" /\ l.error = NotInitialized /\ TimerStep(l)
              /\ (engineRunning \/ uhfRunning))
             => (SameInstances /\ Grew(LoopTop(engineRunning, uhfRunning)))]_vars

\* without a wallet an instance backs off after its second not-ready call
C19_Witness ==
    /\ ~wallet /\ engineRunning /\ oppCount >= 2 /\ stats.trades = 0
    /\ \E l \in Instances : l.pc = "backoff" /\ l.error = NotInitialized

\* the sum of the totalTrades of the strategies S of the catalog strats
RECURSIVE SumTrades(_, _)
SumTrades(strats, S) ==
    IF S = {} THEN 0
    ELSE LET s == CHOOSE x \in S : TRUE
         IN strats[s].totalTrades + SumTrades(strats, S \ {s})

TotalsAgree ==
    /\ totalTrades = stats.successfulTrades
    /\ totalTrades = SumTrades(strategies, StrategyIds)

\* a call of execute succeeded in this step
ExecuteSucceeded ==
    \E l \in Instances : \E balance \in GasBalances : BalanceRead(l, balance)

TotalsStep ==
    IF ExecuteSucceeded
    THEN /\ totalTrades' = totalTrades + 1
         /\ stats'.successfulTrades = stats.successfulTrades + 1
         /\ SumTrades(strategies', StrategyIds)
               = SumTrades(strategies, StrategyIds) + 1
    ELSE /\ totalTrades' = totalTrades
         /\ stats'.successfulTrades = stats.successfulTrades
         /\ \A s \in StrategyIds :
               strategies'[s].totalTrades = strategies[s].totalTrades

\* ---- C20: in every state the global trade total, successfulTrades and the
\* sum of the strategies' trade counts are equal; a successful execute
\* raises the three by 1 in one step and no other step changes any of them,
\* so none ever decreases.
C20_TotalsAgree == []TotalsAgree /\ [][TotalsStep]_vars

\* two trades succeeded, of two different strategies
C20_Witness ==
    /\ totalTrades >= 2
    /\ strategies[1].totalTrades >= 1 /\ strategies[2].totalTrades >= 1

====
